---------------------------- MODULE Spec2Model ----------------------------
(***************************************************************************)
(* A model of the system monitor (src/unnamed/part_000, the current        *)
(* revision of sysmonitor.c): main with its command-line path and its menu *)
(* loop, parse_arguments, the log and the SIGINT handler, cpu_usage with   *)
(* get_cpu_stats, and top_processes with is_numeric, read_process_info,    *)
(* compare_processes and qsort.                                            *)
(*                                                                         *)
(* unsigned long long is modelled with WordBits bits instead of 64: all    *)
(* arithmetic on it is taken modulo Modulus, exactly as the C arithmetic   *)
(* is taken modulo 2^64.  Strings are sequences of one-character strings.  *)
(* The percentages of cpu_usage are kept as exact fractions num/den; the   *)
(* rounding of the double division is not modelled.                        *)
(***************************************************************************)
EXTENDS Integers, Sequences, FiniteSets, TLC

VARIABLES
    pc,          \* control location of the program
    argv,        \* the arguments after the program name
    ret,         \* who called cpu_usage / top_processes ("cli")
    result,      \* <<value returned by parse_arguments>> (<<>> before it returns)
    log_file,    \* the global FILE *log_file: "open" or "NULL"
    log,         \* the entries written to syslog.txt by this run
    out,         \* what was printed (stdout and stderr), as tags
    kstat,       \* environment: the kernel's aggregate CPU counters
    ticks,       \* environment: number of counter updates made so far
    prev, curr,  \* cpu_usage's two CPUStats
    cpu_rc,      \* the values returned by cpu_usage's get_cpu_stats calls, in order
    usage,       \* <<the four percentages cpu_usage printed>> (<<>> before)
    cpu_events,  \* history: what the current cpu_usage call did, in order, each
                 \* event with the kernel's counters at that moment
    iteration,   \* continuous_monitoring_with_interval's counter
    host,        \* environment: which kind of /proc this host has
    enum_idx,    \* environment: number of entries readdir has yielded
    files,       \* environment: comm and stat of the last candidate pid
    proc_dir,    \* top_processes: the DIR *: "unset", "open", "NULL", "closed"
    entry,       \* top_processes: entry->d_name (<<>> before the first readdir)
    pid,         \* top_processes: atoi(entry->d_name)
    processes,   \* top_processes: the slots of the array written so far
    proc_count,  \* top_processes: number of collected processes
    capacity,    \* top_processes: the capacity variable
    allocated,   \* top_processes: slots of the block `processes` points to
    rows,        \* top_processes: the rows of the table printed
    passed,      \* history: names given to atoi and read_process_info
    rejected,    \* history: names skipped by the is_numeric test
    unreadable,  \* history: pids whose read_process_info returned 0
    alloc_fail,  \* history: "none", or the allocation that failed
    stdin,       \* environment: the characters of standard input not yet read
    choice,      \* main's `choice`: <<>> until scanf stores a number in it
    log_closes,  \* history: number of fclose(log_file) calls
    log_misuse   \* history: the log FILE was used after it was closed

cpuVars  == <<kstat, ticks, prev, curr, cpu_rc, usage, cpu_events>>
mainVars == <<pc, argv, ret, result, log_file, log, out, iteration>>
procVars == <<host, enum_idx, files, proc_dir, entry, pid, processes, proc_count,
              capacity, allocated, rows, passed, rejected, unreadable, alloc_fail>>
ttyVars  == <<stdin, choice>>
sigVars  == <<log_closes, log_misuse>>
vars     == <<mainVars, cpuVars, procVars, ttyVars, sigVars>>

----------------------------------------------------------------------------
(* Bounds of the model *)

\* width of unsigned long long in the model (64 in the program)
WordBits == 10
\* number of counter updates the kernel makes during one run
MaxTicks == 3

Modulus == 2 ^ WordBits
\* a long stretch of accounted time: half the counter range in one update
LongStep == Modulus \div 2

None == "none"
\* the value of a CPUStats field that was never assigned: no counter value
Uninit == -1

ULL(x) == ((x % Modulus) + Modulus) % Modulus

----------------------------------------------------------------------------
(* The log *)

\* write_log: nothing when the log file is not open, else one more entry
write_log(lf, lg, mode, details) ==
    IF lf = "NULL" THEN lg ELSE Append(lg, [mode |-> mode, details |-> details])

\* close_log: the entries after close_log()
close_log_entries(lf, lg) ==
    IF lf # "NULL"
    THEN write_log(lf, lg, "SYSTEM", "Session ended - Program terminated normally")
    ELSE lg

----------------------------------------------------------------------------
(* get_cpu_stats and cpu_usage *)

CpuFields == <<"user", "nice", "system", "idle", "iowait", "irq", "softirq", "steal">>
CpuFieldSet == {CpuFields[i] : i \in 1..Len(CpuFields)}

UninitStats == [f \in CpuFieldSet \cup {"total", "active"} |-> Uninit]

\* what fopen("/proc/stat") and fscanf can give: the file does not open, or
\* fscanf converts `fields` of the eight numbers (0 and 7: malformed records)
StatSourceStates == {[open |-> FALSE, fields |-> 0]}
                    \cup {[open |-> TRUE, fields |-> n] : n \in {0, 7, 8}}

\* get_cpu_stats: value returned
get_cpu_stats_rc(src) ==
    IF ~src.open THEN -1
    ELSE IF src.fields < 8 THEN -1
    ELSE 0

\* stats->active = user + nice + system + irq + softirq
CpuActive(st) == ULL(st.user + st.nice + st.system + st.irq + st.softirq)

\* a total that leaves the steal counter out
CpuTotalWithoutSteal(st, active) == ULL(active + st.idle + st.iowait)

\* stats->total = active + idle + iowait + steal
CpuTotal(st, active) == ULL(active + st.idle + st.iowait + st.steal)

\* a capture that stores zeros whatever the source holds
get_cpu_stats_zeros(stats, src, k) ==
    IF ~src.open THEN stats
    ELSE [f \in DOMAIN stats |-> 0]

\* get_cpu_stats: *stats after the call (fscanf stores the fields it converted;
\* active and total are computed only on success)
get_cpu_stats(stats, src, k) ==
    IF ~src.open THEN stats
    ELSE LET read == [f \in DOMAIN stats |->
                        IF \E i \in 1..src.fields : CpuFields[i] = f
                        THEN k[f] ELSE stats[f]]
         IN IF src.fields < 8 THEN read
            ELSE [read EXCEPT !.active = CpuActive(read),
                              !.total = CpuTotal(read, CpuActive(read))]

\* the deltas of cpu_usage, with total_delta before the zero guard
CpuDeltas(p, c) ==
    [total  |-> ULL(c.total - p.total),
     active |-> ULL(c.active - p.active),
     idle   |-> ULL(c.idle - p.idle),
     iowait |-> ULL(c.iowait - p.iowait),
     steal  |-> ULL(c.steal - p.steal)]

\* the delta used as it is, with no guard against zero
UnguardedTotal(total_delta) == total_delta

\* if (total_delta == 0) total_delta = 1;
GuardedTotal(total_delta) == IF total_delta = 0 THEN 1 ELSE total_delta

\* (double)delta / total_delta * 100.0, as the fraction num/den
Percent(delta, total_delta) == [num |-> delta * 100, den |-> total_delta]

\* the four percentages cpu_usage prints
CpuPercentages(p, c) ==
    LET d  == CpuDeltas(p, c)
        td == GuardedTotal(d.total)
    IN [usage_percent  |-> Percent(d.active, td),
        idle_percent   |-> Percent(d.idle, td),
        iowait_percent |-> Percent(d.iowait, td),
        steal_percent  |-> Percent(d.steal, td)]

\* steal_percent > 0.1
StealShown(pct) == pct.steal_percent.num * 10 > pct.steal_percent.den

----------------------------------------------------------------------------
(* Strings, atoi *)

Digits == <<"0", "1", "2", "3", "4", "5", "6", "7", "8", "9">>

\* isdigit
isdigit(c) == \E d \in 1..10 : Digits[d] = c

DigitVal(c) == (CHOOSE d \in 1..10 : Digits[d] = c) - 1

RECURSIVE AtoiDigits(_, _, _)
AtoiDigits(str, i, acc) ==
    IF i > Len(str) \/ ~isdigit(str[i]) THEN acc
    ELSE AtoiDigits(str, i + 1, acc * 10 + DigitVal(str[i]))

\* atoi: an optional sign, then the leading decimal digits (0 when none)
atoi(str) ==
    IF Len(str) > 0 /\ str[1] = "-" THEN 0 - AtoiDigits(str, 2, 0)
    ELSE AtoiDigits(str, 1, 0)

----------------------------------------------------------------------------
(* is_numeric, read_process_info, compare_processes *)

RECURSIVE is_numeric_from(_, _)
\* the while loop of is_numeric, from position i
is_numeric_from(str, i) ==
    IF i > Len(str) THEN 1
    ELSE IF ~isdigit(str[i]) THEN 0
    ELSE is_numeric_from(str, i + 1)

\* a test that looks at the first character only
is_numeric_first_only(str) ==
    IF Len(str) = 0 THEN 0 ELSE IF isdigit(str[1]) THEN 1 ELSE 0

\* is_numeric: 0 for the empty string, else the result of the loop
is_numeric(str) == IF Len(str) = 0 THEN 0 ELSE is_numeric_from(str, 1)

\* sizeof(proc->name)
NameSize == 256

Unknown == <<"u", "n", "k", "n", "o", "w", "n">>

RECURSIVE LineEnd(_, _, _)
\* fgets: the position of the last character it stores (the first newline,
\* the end of the text or the size-1'th character, whichever comes first)
LineEnd(text, i, size) ==
    IF i >= Len(text) \/ i >= size - 1 THEN i
    ELSE IF text[i] = "\n" THEN i
    ELSE LineEnd(text, i + 1, size)

fgets(text, size) ==
    IF Len(text) = 0 THEN <<>> ELSE SubSeq(text, 1, LineEnd(text, 1, size))

\* the name read_process_info leaves in proc->name
ProcessName(comm) ==
    IF ~comm.open THEN Unknown
    ELSE LET line == fgets(comm.text, NameSize)
         IN IF Len(line) = 0 THEN Unknown
            ELSE IF line[Len(line)] = "\n" THEN SubSeq(line, 1, Len(line) - 1)
            ELSE line

\* a read that does not test the number of fields fscanf converted
read_process_info_ret_unchecked(comm, stat) ==
    IF ~stat.open THEN 0 ELSE 1

\* a read that gives up when the name cannot be opened
read_process_info_ret_needs_name(comm, stat) ==
    IF ~comm.open THEN 0
    ELSE IF ~stat.open THEN 0
    ELSE IF stat.fields # 2 THEN 0
    ELSE 1

\* read_process_info: value returned
read_process_info_ret(comm, stat) ==
    IF ~stat.open THEN 0
    ELSE IF stat.fields # 2 THEN 0
    ELSE 1

\* read_process_info: *proc after the call.  stat.fields is what fscanf
\* returns (-1 at end of file), and it stores the fields it converted
read_process_info(p, comm, stat) ==
    LET utime == IF stat.open /\ stat.fields >= 1 THEN stat.utime ELSE 0
        stime == IF stat.open /\ stat.fields >= 2 THEN stat.stime ELSE 0
    IN [pid |-> p, name |-> ProcessName(comm), utime |-> utime, stime |-> stime,
        total_time |-> IF read_process_info_ret(comm, stat) = 1
                       THEN ULL(utime + stime) ELSE 0]

\* a comparison that sorts in ascending order
compare_processes_ascending(a, b) ==
    IF b.total_time > a.total_time THEN -1
    ELSE IF b.total_time < a.total_time THEN 1
    ELSE 0

\* compare_processes
compare_processes(a, b) ==
    IF b.total_time > a.total_time THEN 1
    ELSE IF b.total_time < a.total_time THEN -1
    ELSE 0

RECURSIVE Arrangements(_, _)
\* every order of the elements of arr with indices S
Arrangements(arr, S) ==
    IF S = {} THEN {<<>>}
    ELSE UNION {{<<arr[i]>> \o t : t \in Arrangements(arr, S \ {i})} : i \in S}

RECURSIVE QsortOutcomes(_, _)
\* qsort(processes, proc_count, ..., compare_processes): the elements that
\* compare before a pivot, those that compare equal to it, those that compare
\* after it.  The C library fixes no order among elements that compare equal,
\* so every order of them is a possible result.  The pivot is a median, which
\* changes no result and keeps the recursion shallow.
QsortOutcomes(arr, S) ==
    IF S = {} THEN {<<>>}
    ELSE LET before(p) == {i \in S : compare_processes(arr[i], arr[p]) < 0}
             after(p)  == {i \in S : compare_processes(arr[i], arr[p]) > 0}
             pivot == CHOOSE p \in S :
                         /\ 2 * Cardinality(before(p)) <= Cardinality(S)
                         /\ 2 * Cardinality(after(p)) <= Cardinality(S)
             equal == S \ (before(pivot) \cup after(pivot))
         IN {b \o e \o a : b \in QsortOutcomes(arr, before(pivot)),
                            e \in Arrangements(arr, equal),
                            a \in QsortOutcomes(arr, after(pivot))}

\* a growth that allocates a fresh block and copies nothing into it
ReallocWithoutCopy(arr) ==
    [i \in 1..Len(arr) |-> [pid |-> 0, name |-> <<>>, utime |-> 0, stime |-> 0,
                            total_time |-> 0]]

\* processes = realloc(processes, ...): the old contents are kept
Realloc(arr) == arr

\* the number of rows of the table
TopN == 5

\* a table that always has five rows
DisplayCountFixed(n) == TopN

\* int display_count = (proc_count < 5) ? proc_count : 5;
DisplayCount(n) == IF n < TopN THEN n ELSE TopN

\* int capacity = 100;
InitialCapacity == 100

\* a test that lets the array fill one slot past its capacity
NeedsGrowthLate(count, cap) == count > cap

\* if (proc_count >= capacity)
NeedsGrowth(count, cap) == count >= cap

----------------------------------------------------------------------------
(* The environment of top_processes: /proc *)

\* entries beyond the table's five rows that a small host can have
ExtraEntries == 1
\* user-mode ticks of a process of a small host: 0..MaxTick
MaxTick == 1
\* entries of a host whose processes exit during the scan
MaxRacy == 2
\* entries and name length of a host with arbitrary entry names
MaxOddNames == 1
MaxNameLen == 2
\* capacity doublings a busy host forces
GrowthSteps == 2
\* the pid of the i-th entry of /proc is PidBase + i
PidBase == 12340

Hosts == {"healthy", "racy", "odd_names", "busy"}

NoEntry == [name |-> None]

RECURSIVE Itoa(_)
\* the decimal name of a pid
Itoa(n) == IF n < 10 THEN <<Digits[n + 1]>> ELSE Itoa(n \div 10) \o <<Digits[(n % 10) + 1]>>

PidName(i) == Itoa(PidBase + i)

CommAbsent == [open |-> FALSE, text |-> <<>>]
CommSh     == [open |-> TRUE, text |-> <<"s", "h", "\n">>]
StatAbsent == [open |-> FALSE, fields |-> -1, utime |-> 0, stime |-> 0]
StatOk(u, s) == [open |-> TRUE, fields |-> 2, utime |-> u, stime |-> s]

\* the files of no process, and those of the process just enumerated
NoFiles == [valid |-> FALSE, comm |-> CommAbsent, stat |-> StatAbsent]
FilesOf(e) == [valid |-> TRUE, comm |-> e.comm, stat |-> e.stat]

\* /proc/<pid>/comm: absent, empty, a name with or without its newline
CommSources == {CommAbsent, CommSh,
                [open |-> TRUE, text |-> <<>>],
                [open |-> TRUE, text |-> <<"x">>]}

\* /proc/<pid>/stat: absent, empty (fscanf gives EOF), cut before or after
\* utime, or complete; the largest tick count makes utime + stime wrap
StatSources == {StatAbsent,
                [open |-> TRUE, fields |-> -1, utime |-> 0, stime |-> 0],
                [open |-> TRUE, fields |-> 0, utime |-> 0, stime |-> 0],
                [open |-> TRUE, fields |-> 1, utime |-> 1, stime |-> 0]}
               \cup {StatOk(u, s) : u \in {0, Modulus - 1}, s \in {0, 1}}

NameAlphabet == {"1", "5", "a", "."}
RECURSIVE NamesOfLen(_)
NamesOfLen(n) ==
    IF n = 0 THEN {<<>>}
    ELSE {<<c>> \o t : c \in NameAlphabet, t \in NamesOfLen(n - 1)}
OddNames == UNION {NamesOfLen(n) : n \in 0..MaxNameLen}
            \cup {<<"s", "e", "l", "f">>, <<"1", "a", "b", "c">>,
                  <<"1", "2", "3", "4", "5">>}

HealthyLen == TopN + ExtraEntries
\* a busy host: one entry more than GrowthSteps - 1 doublings can hold, plus
\* "." and one process that has exited
BusyLen == InitialCapacity * (2 ^ (GrowthSteps - 1)) + 3

BusyEntry(i) ==
    IF i = 1 THEN [name |-> <<".">>, comm |-> CommAbsent, stat |-> StatAbsent]
    ELSE IF i = 5 THEN [name |-> PidName(i), comm |-> CommAbsent, stat |-> StatAbsent]
    ELSE [name |-> PidName(i), comm |-> CommSh, stat |-> StatOk(BusyLen - i, 1)]

\* what readdir can return after i entries with the names `seen`: NoEntry
\* (NULL, the end of the directory) or an entry with the state of its two
\* files; a directory holds no name twice
DirEntries(h, i, seen) ==
    CASE h = "healthy" ->
           {NoEntry} \cup
           (IF i < HealthyLen
            THEN {[name |-> PidName(i + 1), comm |-> CommSh, stat |-> StatOk(u, 1)]
                    : u \in 0..MaxTick}
            ELSE {})
      [] h = "racy" ->
           {NoEntry} \cup
           (IF i < MaxRacy
            THEN {[name |-> n, comm |-> c, stat |-> st]
                    : n \in {PidName(i + 1)}, c \in CommSources, st \in StatSources}
                 \cup {[name |-> n, comm |-> CommAbsent, stat |-> StatAbsent]
                         : n \in {<<"s", "e", "l", "f">>} \ seen}
            ELSE {})
      [] h = "odd_names" ->
           {NoEntry} \cup
           (IF i < MaxOddNames
            THEN {[name |-> n, comm |-> CommSh, stat |-> StatOk(1, 1)]
                    : n \in OddNames \ seen}
            ELSE {})
      [] OTHER ->
           IF i < BusyLen THEN {BusyEntry(i + 1)} ELSE {NoEntry}

----------------------------------------------------------------------------
(* Standard input *)

\* the newline character
LF == "\n"

\* getchar(): the input left after the call (nothing is consumed at end of
\* input, where getchar returns EOF)
Getchar(in) == IF in = <<>> THEN in ELSE Tail(in)

----------------------------------------------------------------------------
(* main and parse_arguments *)

A_h    == <<"-", "h">>
A_help == <<"-", "-", "h", "e", "l", "p">>
A_m    == <<"-", "m">>
A_c    == <<"-", "c">>
A_x    == <<"-", "x">>
A_cpu  == <<"c", "p", "u">>
A_mem  == <<"m", "e", "m">>
A_proc == <<"p", "r", "o", "c">>

\* main up to the test of argc: init_log (the log file may fail to open),
\* signal, the start entry
Main ==
    /\ pc = "main"
    /\ \E opened \in BOOLEAN :
         LET lf == IF opened THEN "open" ELSE "NULL"
         IN /\ log_file' = lf
            /\ out' = IF opened THEN out ELSE Append(out, "warn_log")
            /\ log' = write_log(lf, log, "SYSTEM", "System Monitor started")
    /\ pc' = IF Len(argv) + 1 > 1 THEN "parse_arguments" ELSE "menu"
    /\ UNCHANGED <<argv, ret, result, iteration>>
    /\ UNCHANGED cpuVars
    /\ UNCHANGED procVars
    /\ UNCHANGED ttyVars
    /\ UNCHANGED sigVars

\* parse_arguments up to its return or its call of cpu_usage, memory_usage,
\* top_processes or continuous_monitoring_with_interval: [pc, result, out, log]
ParseOutcome(av, lf, lg, o) ==
    LET argc == Len(av) + 1
        fail(tag, msg) == [pc |-> "main_close", result |-> <<1>>,
                           out |-> Append(o, tag),
                           log |-> write_log(lf, lg, "ERROR", msg)]
    IN  IF argc < 2
        THEN [pc |-> "main_close", result |-> <<1>>, out |-> o, log |-> lg]
        ELSE IF av[1] = A_h \/ av[1] = A_help
        THEN [pc |-> "main_close", result |-> <<0>>, out |-> Append(o, "help"),
              log |-> write_log(lf, lg, "CLI", "Help displayed")]
        ELSE IF av[1] = A_m
        THEN IF argc < 3
             THEN fail("err_missing", "Missing parameter for -m flag")
             ELSE IF av[2] = A_cpu
             THEN [pc |-> "cpu_usage", result |-> <<>>, out |-> o,
                   log |-> write_log(lf, lg, "CLI",
                                     "CPU usage displayed via command-line")]
             ELSE IF av[2] = A_mem
             THEN [pc |-> "memory_usage", result |-> <<>>, out |-> o,
                   log |-> write_log(lf, lg, "CLI",
                                     "Memory usage displayed via command-line")]
             ELSE IF av[2] = A_proc
             THEN [pc |-> "top_processes", result |-> <<>>, out |-> o,
                   log |-> write_log(lf, lg, "CLI",
                                     "Top processes displayed via command-line")]
             ELSE fail("err_invalid", "Invalid mode parameter")
        ELSE IF av[1] = A_c
        THEN IF argc < 3
             THEN fail("err_missing", "Missing interval for -c flag")
             ELSE IF atoi(av[2]) <= 0
             THEN fail("err_interval",
                       "Invalid interval value for continuous monitoring")
             ELSE [pc |-> "monitoring", result |-> <<>>,
                   out |-> Append(o, "monitor_header"),
                   log |-> write_log(lf, lg, "CLI",
                                     "Continuous monitoring started")]
        ELSE IF av[1] = A_x
        THEN fail("err_invalid", "Invalid option -x provided")
        ELSE fail("err_invalid", "Unknown command-line option")

ParseArguments ==
    /\ pc = "parse_arguments"
    /\ LET r == ParseOutcome(argv, log_file, log, out)
       IN /\ pc' = r.pc
          /\ result' = r.result
          /\ out' = r.out
          /\ log' = r.log
    /\ ret' = "cli"
    /\ UNCHANGED <<argv, log_file, iteration>>
    /\ UNCHANGED cpuVars
    /\ UNCHANGED procVars
    /\ UNCHANGED ttyVars
    /\ UNCHANGED sigVars

\* where a function called from parse_arguments or from the menu returns to
ReturnSite(r) == IF r = "cli" THEN "cli_return" ELSE "menu"

\* the `return 0` after cpu_usage(), memory_usage() or top_processes()
CliReturn ==
    /\ pc = "cli_return"
    /\ result' = <<0>>
    /\ pc' = "main_close"
    /\ UNCHANGED <<argv, ret, log_file, log, out, iteration>>
    /\ UNCHANGED cpuVars
    /\ UNCHANGED procVars
    /\ UNCHANGED ttyVars
    /\ UNCHANGED sigVars

\* close_log() and the return of main
MainClose ==
    /\ pc = "main_close"
    /\ log' = close_log_entries(log_file, log)
    /\ log_file' = "NULL"
    /\ pc' = "exit"
    /\ UNCHANGED <<argv, ret, result, out, iteration>>
    /\ UNCHANGED cpuVars
    /\ UNCHANGED procVars
    /\ UNCHANGED ttyVars
    /\ log_closes' = IF log_file = "NULL" THEN log_closes ELSE log_closes + 1
    /\ UNCHANGED log_misuse

----------------------------------------------------------------------------
(* The menu loop of main *)

RECURSIVE SkipSpace(_)
\* scanf: white space before a conversion is skipped
SkipSpace(in) == IF in # <<>> /\ in[1] = LF THEN SkipSpace(Tail(in)) ELSE in

RECURSIVE DigitsFrom(_, _)
\* the number of digits of `in` from position i on
DigitsFrom(in, i) ==
    IF i > Len(in) \/ ~isdigit(in[i]) THEN 0 ELSE 1 + DigitsFrom(in, i + 1)

\* scanf("%d", &choice): the value returned (EOF is -1), the number stored
\* when it is 1, and the input left, which starts with the first character
\* that is not part of the number
Scanf(in) ==
    LET t == SkipSpace(in)
        n == DigitsFrom(t, 1)
    IN  IF t = <<>> THEN [ret |-> -1, value |-> 0, rest |-> t]
        ELSE IF n = 0 THEN [ret |-> 0, value |-> 0, rest |-> t]
        ELSE [ret |-> 1, value |-> AtoiDigits(t, 1, 0),
              rest |-> SubSeq(t, n + 1, Len(t))]

\* display_menu, the prompt and scanf
MenuPrompt ==
    /\ pc = "menu"
    /\ out' = Append(out, "menu")
    /\ stdin' = Scanf(stdin).rest
    /\ IF Scanf(stdin).ret # 1
       THEN /\ pc' = "discard_invalid"
            /\ UNCHANGED choice
       ELSE /\ pc' = "discard_input"
            /\ choice' = <<Scanf(stdin).value>>
    /\ UNCHANGED <<argv, ret, result, log_file, log, iteration>>
    /\ UNCHANGED cpuVars
    /\ UNCHANGED procVars
    /\ UNCHANGED sigVars

\* one turn of `while (getchar() != '\n');` after a failed scanf; at end of
\* input getchar returns EOF, which is not '\n', and nothing changes
DiscardInvalid ==
    /\ pc = "discard_invalid"
    /\ stdin' = Getchar(stdin)
    /\ IF stdin # <<>> /\ stdin[1] = LF
       THEN /\ out' = Append(out, "err_input")
            /\ pc' = "menu"
       ELSE UNCHANGED <<out, pc>>
    /\ UNCHANGED <<argv, ret, result, log_file, log, iteration>>
    /\ UNCHANGED cpuVars
    /\ UNCHANGED procVars
    /\ UNCHANGED choice
    /\ UNCHANGED sigVars

\* one turn of `while (getchar() != '\n');` after a number was read
DiscardInput ==
    /\ pc = "discard_input"
    /\ stdin' = Getchar(stdin)
    /\ pc' = IF stdin # <<>> /\ stdin[1] = LF THEN "switch" ELSE pc
    /\ UNCHANGED <<argv, ret, result, log_file, log, out, iteration>>
    /\ UNCHANGED cpuVars
    /\ UNCHANGED procVars
    /\ UNCHANGED choice
    /\ UNCHANGED sigVars

\* switch (choice)
MenuSwitch ==
    /\ pc = "switch"
    /\ ret' = "menu"
    /\ CASE choice[1] = 1 -> pc' = "cpu_usage" /\ UNCHANGED <<out, log>>
         [] choice[1] = 2 -> pc' = "memory_usage" /\ UNCHANGED <<out, log>>
         [] choice[1] = 3 -> pc' = "top_processes" /\ UNCHANGED <<out, log>>
         [] choice[1] = 4 -> pc' = "continuous_monitoring" /\ UNCHANGED <<out, log>>
         [] choice[1] = 5 ->
              /\ out' = Append(out, "goodbye")
              /\ log' = write_log(log_file, log, "SYSTEM", "User exited normally")
              /\ pc' = "main_close"
         [] OTHER ->
              /\ out' = Append(out, "err_choice")
              /\ pc' = "menu"
              /\ log' = log
    /\ UNCHANGED <<argv, result, log_file, iteration>>
    /\ UNCHANGED cpuVars
    /\ UNCHANGED procVars
    /\ UNCHANGED ttyVars
    /\ UNCHANGED sigVars

\* continuous_monitoring: a placeholder that logs and waits for Enter
ContinuousMonitoring ==
    /\ pc = "continuous_monitoring"
    /\ out' = Append(out, "monitor_placeholder")
    /\ log' = write_log(log_file, log, "MENU", "Continuous Monitoring viewed")
    /\ stdin' = Getchar(stdin)
    /\ pc' = "menu"
    /\ UNCHANGED <<argv, ret, result, log_file, iteration>>
    /\ UNCHANGED cpuVars
    /\ UNCHANGED procVars
    /\ UNCHANGED choice
    /\ UNCHANGED sigVars

----------------------------------------------------------------------------
(* cpu_usage, step by step *)

\* an entry of cpu_events
CpuEvent(e, k) == [ev |-> e, k |-> k]

\* the kernel accounts time to one counter (one tick, or a long stretch at
\* once); a counter itself does not wrap
Tick ==
    /\ pc \in {"cpu_usage", "cpu_sleep"}
    /\ ticks < MaxTicks
    /\ \E f \in CpuFieldSet, n \in {1, LongStep} :
         /\ kstat[f] + n < Modulus
         /\ kstat' = [kstat EXCEPT ![f] = @ + n]
    /\ ticks' = ticks + 1
    /\ UNCHANGED mainVars
    /\ UNCHANGED <<prev, curr, cpu_rc, usage, cpu_events>>
    /\ UNCHANGED procVars
    /\ UNCHANGED ttyVars
    /\ UNCHANGED sigVars

\* cpu_usage up to the first get_cpu_stats and its test
CpuCapture1 ==
    /\ pc = "cpu_usage"
    /\ \E src \in StatSourceStates :
         /\ prev' = get_cpu_stats(UninitStats, src, kstat)
         /\ cpu_rc' = <<get_cpu_stats_rc(src)>>
         /\ pc' = IF get_cpu_stats_rc(src) # 0 THEN ReturnSite(ret) ELSE "cpu_sleep"
    /\ curr' = UninitStats
    /\ usage' = <<>>
    /\ cpu_events' = <<CpuEvent("capture", kstat)>>
    /\ out' = Append(out, "cpu_header")
    /\ UNCHANGED <<argv, ret, result, log_file, log, iteration>>
    /\ UNCHANGED <<kstat, ticks>>
    /\ UNCHANGED procVars
    /\ UNCHANGED ttyVars
    /\ UNCHANGED sigVars

\* sleep(1)
CpuSleep ==
    /\ pc = "cpu_sleep"
    /\ pc' = "cpu_capture2"
    /\ cpu_events' = Append(cpu_events, CpuEvent("wait", kstat))
    /\ UNCHANGED <<argv, ret, result, log_file, log, out, iteration>>
    /\ UNCHANGED <<kstat, ticks, prev, curr, cpu_rc, usage>>
    /\ UNCHANGED procVars
    /\ UNCHANGED ttyVars
    /\ UNCHANGED sigVars

\* the second get_cpu_stats and its test
CpuCapture2 ==
    /\ pc = "cpu_capture2"
    /\ \E src \in StatSourceStates :
         /\ curr' = get_cpu_stats(curr, src, kstat)
         /\ cpu_rc' = Append(cpu_rc, get_cpu_stats_rc(src))
         /\ pc' = IF get_cpu_stats_rc(src) # 0 THEN ReturnSite(ret) ELSE "cpu_compute"
    /\ cpu_events' = Append(cpu_events, CpuEvent("capture", kstat))
    /\ UNCHANGED <<argv, ret, result, log_file, log, out, iteration>>
    /\ UNCHANGED <<kstat, ticks, prev, usage>>
    /\ UNCHANGED procVars
    /\ UNCHANGED ttyVars
    /\ UNCHANGED sigVars

\* the deltas, the percentages and their output
CpuCompute ==
    /\ pc = "cpu_compute"
    /\ usage' = <<CpuPercentages(prev, curr)>>
    /\ out' = out \o <<"cpu_figures">>
                  \o (IF StealShown(CpuPercentages(prev, curr))
                      THEN <<"cpu_steal">> ELSE <<>>)
    /\ cpu_events' = Append(cpu_events, CpuEvent("output", kstat))
    /\ pc' = ReturnSite(ret)
    /\ UNCHANGED <<argv, ret, result, log_file, log, iteration>>
    /\ UNCHANGED <<kstat, ticks, prev, curr, cpu_rc>>
    /\ UNCHANGED procVars
    /\ stdin' = Getchar(stdin)
    /\ UNCHANGED choice
    /\ UNCHANGED sigVars

\* memory_usage: a placeholder that logs
MemoryUsage ==
    /\ pc = "memory_usage"
    /\ out' = Append(out, "mem_placeholder")
    /\ log' = write_log(log_file, log, "MENU", "Memory Usage viewed")
    /\ pc' = ReturnSite(ret)
    /\ UNCHANGED <<argv, ret, result, log_file, iteration>>
    /\ UNCHANGED cpuVars
    /\ UNCHANGED procVars
    /\ stdin' = Getchar(stdin)
    /\ UNCHANGED choice
    /\ UNCHANGED sigVars

----------------------------------------------------------------------------
(* top_processes, step by step *)

\* a slot of the array that was never written
UninitSlot == [uninit |-> TRUE]

\* processes[i] = rec, for a slot next to those written so far
StoreSlot(arr, i, rec) ==
    IF i <= Len(arr) THEN [arr EXCEPT ![i] = rec] ELSE Append(arr, rec)

\* top_processes up to the loop: malloc and opendir, each of which may fail;
\* every call starts a new enumeration, with the histories of the scan empty
TopProcesses ==
    /\ pc = "top_processes"
    /\ \E mallocOk \in BOOLEAN, opendirOk \in BOOLEAN :
         IF ~mallocOk
         THEN /\ out' = out \o <<"proc_header", "err_alloc">>
              /\ log' = write_log(log_file, log, "ERROR",
                                  "Memory allocation failed for process array")
              /\ allocated' = 0
              /\ alloc_fail' = "malloc"
              /\ proc_dir' = "unset"
              /\ pc' = ReturnSite(ret)
         ELSE IF ~opendirOk
         THEN /\ out' = out \o <<"proc_header", "err_proc">>
              /\ log' = write_log(log_file, log, "ERROR",
                                  "Failed to open /proc directory")
              /\ allocated' = 0
              /\ alloc_fail' = "none"
              /\ proc_dir' = "NULL"
              /\ pc' = ReturnSite(ret)
         ELSE /\ out' = out \o <<"proc_header">>
              /\ log' = log
              /\ allocated' = InitialCapacity
              /\ alloc_fail' = "none"
              /\ proc_dir' = "open"
              /\ pc' = "tp_readdir"
    /\ proc_count' = 0
    /\ capacity' = InitialCapacity
    /\ processes' = <<>>
    /\ enum_idx' = 0
    /\ files' = NoFiles
    /\ rows' = <<>>
    /\ passed' = {}
    /\ rejected' = {}
    /\ unreadable' = {}
    /\ UNCHANGED <<argv, ret, result, log_file, iteration>>
    /\ UNCHANGED cpuVars
    /\ UNCHANGED <<host, entry, pid>>
    /\ stdin' = IF proc_dir' = "open" THEN stdin ELSE Getchar(stdin)
    /\ UNCHANGED choice
    /\ UNCHANGED sigVars

\* one readdir, the is_numeric test, atoi and the growth of the array
TpReaddir ==
    /\ pc = "tp_readdir"
    /\ \E e \in DirEntries(host, enum_idx, passed \cup rejected), reallocOk \in BOOLEAN :
         IF e = NoEntry
         THEN /\ pc' = "tp_finish"
              /\ UNCHANGED <<out, enum_idx, files, entry, pid, processes,
                             capacity, allocated, rejected, alloc_fail>>
         ELSE /\ enum_idx' = enum_idx + 1
              /\ entry' = e.name
              /\ IF is_numeric(e.name) = 0
                 THEN /\ rejected' = rejected \cup {e.name}
                      /\ files' = NoFiles
                      /\ pc' = "tp_readdir"
                      /\ UNCHANGED <<out, pid, processes, capacity, allocated,
                                     alloc_fail>>
                 ELSE /\ pid' = atoi(e.name)
                      /\ rejected' = rejected
                      /\ IF NeedsGrowth(proc_count, capacity)
                         THEN /\ capacity' = capacity * 2
                              /\ IF reallocOk
                                 THEN /\ processes' = Realloc(processes)
                                      /\ allocated' = capacity * 2
                                      /\ files' = FilesOf(e)
                                      /\ out' = out
                                      /\ alloc_fail' = alloc_fail
                                      /\ pc' = "tp_read"
                                 ELSE /\ out' = Append(out, "err_realloc")
                                      /\ files' = NoFiles
                                      /\ alloc_fail' = "realloc"
                                      /\ pc' = "tp_finish"
                                      /\ UNCHANGED <<processes, allocated>>
                         ELSE /\ files' = FilesOf(e)
                              /\ pc' = "tp_read"
                              /\ UNCHANGED <<out, processes, capacity, allocated,
                                             alloc_fail>>
    /\ UNCHANGED <<argv, ret, result, log_file, log, iteration>>
    /\ UNCHANGED cpuVars
    /\ UNCHANGED <<host, proc_dir, proc_count, rows, passed, unreadable>>
    /\ UNCHANGED ttyVars
    /\ UNCHANGED sigVars

\* environment: the process just enumerated exits before it is read
ProcExits ==
    /\ pc = "tp_read"
    /\ host = "racy"
    /\ files.stat.open \/ files.comm.open
    /\ files' = [valid |-> TRUE, comm |-> CommAbsent, stat |-> StatAbsent]
    /\ UNCHANGED mainVars
    /\ UNCHANGED cpuVars
    /\ UNCHANGED <<host, enum_idx, proc_dir, entry, pid, processes, proc_count,
                   capacity, allocated, rows, passed, rejected, unreadable,
                   alloc_fail>>
    /\ UNCHANGED ttyVars
    /\ UNCHANGED sigVars

\* if (read_process_info(pid, &processes[proc_count])) proc_count++;
TpReadInfo ==
    /\ pc = "tp_read"
    /\ processes' = StoreSlot(processes, proc_count + 1,
                              read_process_info(pid, files.comm, files.stat))
    /\ proc_count' = IF read_process_info_ret(files.comm, files.stat) # 0
                     THEN proc_count + 1 ELSE proc_count
    /\ unreadable' = IF read_process_info_ret(files.comm, files.stat) # 0
                     THEN unreadable ELSE unreadable \cup {pid}
    /\ passed' = passed \cup {entry}
    /\ pc' = "tp_readdir"
    /\ UNCHANGED <<argv, ret, result, log_file, log, out, iteration>>
    /\ UNCHANGED cpuVars
    /\ UNCHANGED <<host, enum_idx, files, proc_dir, entry, pid, capacity, allocated,
                   rows, rejected, alloc_fail>>
    /\ UNCHANGED ttyVars
    /\ UNCHANGED sigVars

\* closedir, then "No processes found" or qsort, the table and the log entry
TpFinish ==
    /\ pc = "tp_finish"
    /\ IF proc_count = 0
       THEN /\ out' = Append(out, "no_procs")
            /\ UNCHANGED <<processes, rows, log>>
       ELSE \E sorted \in QsortOutcomes(processes, 1..proc_count) :
              /\ processes' = sorted \o SubSeq(processes, proc_count + 1, Len(processes))
              /\ rows' = [i \in 1..DisplayCount(proc_count) |->
                            IF i <= proc_count THEN sorted[i] ELSE UninitSlot]
              /\ out' = Append(out, "proc_table")
              /\ log' = write_log(log_file, log, "MENU", "Top 5 Processes viewed")
    /\ allocated' = 0
    /\ proc_dir' = "closed"
    /\ pc' = ReturnSite(ret)
    /\ UNCHANGED <<argv, ret, result, log_file, iteration>>
    /\ UNCHANGED cpuVars
    /\ UNCHANGED <<host, enum_idx, files, entry, pid, proc_count, capacity,
                   passed, rejected, unreadable, alloc_fail>>
    /\ stdin' = Getchar(stdin)
    /\ UNCHANGED choice
    /\ UNCHANGED sigVars

\* iterations of continuous monitoring the model follows
MaxIterations == 2

\* characters of standard input before its end
MaxInput == 4

\* one round of continuous_monitoring_with_interval's endless loop
Monitoring ==
    /\ pc = "monitoring"
    /\ iteration < MaxIterations
    /\ iteration' = iteration + 1
    /\ out' = Append(out, "monitor_screen")
    /\ log' = write_log(log_file, log, "MONITOR", "Continuous monitoring - iteration")
    /\ UNCHANGED <<pc, argv, ret, result, log_file>>
    /\ UNCHANGED cpuVars
    /\ UNCHANGED procVars
    /\ UNCHANGED ttyVars
    /\ UNCHANGED sigVars

----------------------------------------------------------------------------
(* SIGINT, and close_log statement by statement *)

SessionEnded == "Session ended - Program terminated normally"

\* close_log in main: the test of log_file and write_log("SYSTEM", ...)
CloseLogWrite ==
    /\ pc = "main_close"
    /\ log' = close_log_entries(log_file, log)
    /\ pc' = IF log_file # "NULL" THEN "close_fclose" ELSE "exit"
    /\ UNCHANGED <<argv, ret, result, log_file, out, iteration>>
    /\ UNCHANGED cpuVars
    /\ UNCHANGED procVars
    /\ UNCHANGED ttyVars
    /\ UNCHANGED sigVars

\* close_log in main: fclose(log_file); the pointer is now dangling
CloseLogFclose ==
    /\ pc = "close_fclose"
    /\ log_file' = "closed"
    /\ log_closes' = log_closes + 1
    /\ pc' = "close_null"
    /\ UNCHANGED <<argv, ret, result, log, out, iteration>>
    /\ UNCHANGED cpuVars
    /\ UNCHANGED procVars
    /\ UNCHANGED ttyVars
    /\ UNCHANGED log_misuse

\* close_log in main: log_file = NULL, and main returns
CloseLogNull ==
    /\ pc = "close_null"
    /\ log_file' = "NULL"
    /\ pc' = "exit"
    /\ UNCHANGED <<argv, ret, result, log, out, iteration>>
    /\ UNCHANGED cpuVars
    /\ UNCHANGED procVars
    /\ UNCHANGED ttyVars
    /\ UNCHANGED sigVars

\* SIGINT is delivered between two statements of main, once the handler is
\* installed: signal_handler runs write_log, close_log and exit(0).  When
\* log_file dangles, fprintf and fclose are applied to a closed stream: the
\* two entries may or may not reach the file
SigInt ==
    /\ pc \notin {"main", "exit"}
    /\ out' = Append(out, "sig_exit")
    /\ \E reaches \in BOOLEAN :
         LET signalled == write_log(log_file, log, "SIGNAL",
                                    "SIGINT received (Ctrl+C) - Saving log and terminating")
         IN /\ log_file = "closed" \/ reaches
            /\ log' = IF reaches THEN close_log_entries(log_file, signalled) ELSE log
    /\ log_closes' = IF log_file # "NULL" THEN log_closes + 1 ELSE log_closes
    /\ log_misuse' = (log_misuse \/ log_file = "closed")
    /\ log_file' = "NULL"
    /\ pc' = "exit"
    /\ UNCHANGED <<argv, ret, result, iteration>>
    /\ UNCHANGED cpuVars
    /\ UNCHANGED procVars
    /\ UNCHANGED ttyVars

----------------------------------------------------------------------------
(* The specifications *)

Argvs == {<<A_h>>, <<A_m>>, <<A_m, A_cpu>>, <<A_m, A_mem>>, <<A_m, A_proc>>,
          <<A_m, A_x>>, <<A_c>>, <<A_c, <<"0">>>>, <<A_c, <<"2">>>>, <<A_x>>,
          <<A_help>>, <<<<"-", "z">>>>}

\* the state after program start: a command line, a host, an input stream
InitIo(args, hosts, inputs) ==
    /\ pc = "main"
    /\ argv \in args
    /\ ret = None
    /\ result = <<>>
    /\ log_file = "NULL"
    /\ log = <<>>
    /\ out = <<>>
    /\ iteration = 0
    /\ kstat = [f \in CpuFieldSet |-> 0]
    /\ ticks = 0
    /\ prev = UninitStats
    /\ curr = UninitStats
    /\ cpu_rc = <<>>
    /\ usage = <<>>
    /\ cpu_events = <<>>
    /\ host \in hosts
    /\ enum_idx = 0
    /\ files = NoFiles
    /\ proc_dir = "unset"
    /\ entry = <<>>
    /\ pid = 0
    /\ processes = <<>>
    /\ proc_count = 0
    /\ capacity = InitialCapacity
    /\ allocated = 0
    /\ rows = <<>>
    /\ passed = {}
    /\ rejected = {}
    /\ unreadable = {}
    /\ alloc_fail = "none"
    /\ stdin \in inputs
    /\ choice = <<>>
    /\ log_closes = 0
    /\ log_misuse = FALSE

\* a run whose standard input is one press of Enter
InitWith(args, hosts) == InitIo(args, hosts, {<<LF>>})

\* the whole program on every command line of Argvs
Init == \/ InitWith(Argvs \ {<<A_m, A_proc>>}, {"healthy"})
        \/ InitWith({<<A_m, A_proc>>}, Hosts)

MainSteps == Main \/ ParseArguments \/ CliReturn \/ MainClose
CpuSteps  == Tick \/ CpuCapture1 \/ CpuSleep \/ CpuCapture2 \/ CpuCompute
ProcSteps == TopProcesses \/ TpReaddir \/ ProcExits \/ TpReadInfo \/ TpFinish

Next == MainSteps \/ CpuSteps \/ ProcSteps \/ MemoryUsage \/ Monitoring

Spec == Init /\ [][Next]_vars

\* sysmonitor -m cpu
InitCpu == InitWith({<<A_m, A_cpu>>}, {"healthy"})
NextCpu == MainSteps \/ CpuSteps
SpecCpu == InitCpu /\ [][NextCpu]_vars

\* sysmonitor -m proc
InitProc == InitWith({<<A_m, A_proc>>}, Hosts)
NextProc == MainSteps \/ ProcSteps
SpecProc == InitProc /\ [][NextProc]_vars

\* what the user can type: the five choices, a number that is no choice, a
\* character that is no digit, Enter
InputAlphabet == {"1", "2", "3", "4", "5", "7", "x", LF}
RECURSIVE InputsOfLen(_)
InputsOfLen(n) ==
    IF n = 0 THEN {<<>>}
    ELSE {<<c>> \o t : c \in InputAlphabet, t \in InputsOfLen(n - 1)}
\* every input stream of at most n characters, followed by end of input
Inputs(n) == UNION {InputsOfLen(k) : k \in 0..n}

\* the steps of cpu_usage and top_processes on a host whose counters and
\* processes do not change meanwhile
QuietSteps == \/ CpuCapture1 \/ CpuSleep \/ CpuCapture2 \/ CpuCompute
              \/ TopProcesses \/ TpReaddir \/ TpReadInfo \/ TpFinish
              \/ MemoryUsage
MenuSteps == \/ MenuPrompt \/ DiscardInvalid \/ DiscardInput \/ MenuSwitch
             \/ ContinuousMonitoring

\* sysmonitor without arguments: the interactive menu.  The program is the
\* only thread and always runs: a step that is possible is taken
InitMenu == InitIo({<<>>}, {"odd_names"}, Inputs(MaxInput))
NextMenu == Main \/ MenuSteps \/ QuietSteps \/ MainClose
SpecMenu == InitMenu /\ [][NextMenu]_vars /\ WF_vars(NextMenu)

\* command-line and interactive runs during which SIGINT may arrive
SigArgvs == {<<A_h>>, <<A_m, A_cpu>>, <<A_m, A_mem>>, <<A_m, A_proc>>,
             <<A_c, <<"2">>>>, <<A_x>>}
InitSig == \/ InitIo(SigArgvs, {"odd_names"}, {<<LF>>})
           \/ InitIo({<<>>}, {"odd_names"}, Inputs(MaxInput))
NextSig == \/ Main \/ ParseArguments \/ CliReturn
           \/ CloseLogWrite \/ CloseLogFclose \/ CloseLogNull
           \/ MenuSteps \/ QuietSteps \/ Monitoring
           \/ SigInt
SpecSig == InitSig /\ [][NextSig]_vars

----------------------------------------------------------------------------
(* Claims about cpu_usage (checked under SpecCpu) *)

HasOut(tag) == \E i \in 1..Len(out) : out[i] = tag

\* cpu_usage has printed its figures from prev and curr
CpuShown == Len(usage) = 1

\* each of the eight counters of curr is >= the same counter of prev
Monotone == \A f \in CpuFieldSet : curr[f] >= prev[f]

\* the time accounted between the two captures, over the eight counters,
\* as a number (not reduced modulo the word size)
Elapsed == (curr.user - prev.user) + (curr.nice - prev.nice)
           + (curr.system - prev.system) + (curr.idle - prev.idle)
           + (curr.iowait - prev.iowait) + (curr.irq - prev.irq)
           + (curr.softirq - prev.softirq) + (curr.steal - prev.steal)

PercentNames == {"usage_percent", "idle_percent", "iowait_percent", "steal_percent"}

\* the four deltas add up to total_delta and each lies in 0..total_delta:
\* every percentage is in [0,100] and they sum to 100
PercentagesPartition ==
    /\ \A n \in PercentNames :
         /\ usage[1][n].den > 0
         /\ usage[1][n].num >= 0
         /\ usage[1][n].num <= 100 * usage[1][n].den
    /\ usage[1].usage_percent.num + usage[1].idle_percent.num
       + usage[1].iowait_percent.num + usage[1].steal_percent.num
         = 100 * usage[1].usage_percent.den

\* C1 as stated: for every pair of snapshots with curr's eight counters >=
\* prev's and curr.total > prev.total, the four deltas of cpu_usage add up to
\* total_delta and lie in 0..total_delta, so the four percentages are in
\* [0,100] and sum to 100.
C1_AsStated ==
    (CpuShown /\ Monotone /\ curr.total > prev.total) => PercentagesPartition

\* C1 amended: the same, for the pairs whose eight counter differences sum
\* to less than the range of unsigned long long (no wrap-around of the sums
\* between the two captures).
C1_DeltasPartitionTotal ==
    (CpuShown /\ Monotone /\ curr.total > prev.total /\ Elapsed < Modulus)
        => PercentagesPartition

\* a run that printed figures for a window in which both active and idle time
\* was accounted, and steal time as well
C1_Witness ==
    /\ CpuShown /\ Monotone /\ curr.total > prev.total /\ Elapsed < Modulus
    /\ usage[1].usage_percent.num > 0
    /\ usage[1].idle_percent.num > 0
    /\ usage[1].steal_percent.num > 0

AllZero == \A n \in PercentNames : usage[1][n].num = 0

\* C2 as stated: for any two snapshots with curr.total = prev.total, cpu_usage
\* divides by no zero and all four percentages are 0.
C2_AsStated ==
    (CpuShown /\ curr.total = prev.total)
        => /\ \A n \in PercentNames : usage[1][n].den # 0
           /\ AllZero

\* C2 amended: for any two snapshots with curr.total = prev.total, cpu_usage
\* divides by 1, never by zero; all four percentages are 0 when no counter
\* of curr is below prev's and the eight differences sum to less than the
\* range of unsigned long long (then no counter has changed).
C2_ZeroDeltaGuarded ==
    (CpuShown /\ curr.total = prev.total)
        => /\ \A n \in PercentNames : usage[1][n].den = 1
           /\ (Monotone /\ Elapsed < Modulus) => AllZero

\* two captures of counters that were already running and did not move
C2_Witness ==
    /\ CpuShown /\ curr.total = prev.total
    /\ prev.total > 0
    /\ Elapsed = 0
    /\ AllZero

\* the kinds of the events of the current cpu_usage call, in order
CpuEventKinds == [i \in 1..Len(cpu_events) |-> cpu_events[i].ev]
CpuOrder == <<"capture", "wait", "capture", "output">>

\* C11: a cpu_usage call does first capture, wait, second capture, output, in
\* that order and each at most once; one get_cpu_stats call per capture; no
\* wait after a failed first capture and no output after a failed capture;
\* the figures come from the counters as they were at the two captures of
\* this call.
C11_CaptureWaitCaptureOutput ==
    /\ Len(cpu_events) <= Len(CpuOrder)
    /\ CpuEventKinds = SubSeq(CpuOrder, 1, Len(cpu_events))
    /\ Len(cpu_rc) = Cardinality({i \in 1..Len(cpu_events) : cpu_events[i].ev = "capture"})
    /\ (Len(cpu_rc) >= 1 /\ cpu_rc[1] # 0) => Len(cpu_events) = 1
    /\ (Len(cpu_rc) = 2 /\ cpu_rc[2] # 0) => Len(cpu_events) = 3
    /\ CpuShown <=> Len(cpu_events) = 4
    /\ CpuShown =>
          /\ cpu_rc = <<0, 0>>
          /\ \A f \in CpuFieldSet : /\ prev[f] = cpu_events[1].k[f]
                                    /\ curr[f] = cpu_events[3].k[f]
          /\ usage[1] = CpuPercentages(prev, curr)

\* a complete call: counters moved before the first capture and again during
\* the wait
C11_Witness ==
    /\ CpuShown
    /\ CpuEventKinds = CpuOrder
    /\ cpu_events[1].k.user > 0
    /\ cpu_events[3].k.idle > cpu_events[1].k.idle
    /\ curr.idle > prev.idle

----------------------------------------------------------------------------
(* Claims about top_processes (checked under SpecProc) *)

\* the loop of top_processes has ended and the table, if any, is printed
ScanFinished == proc_dir = "closed"

\* the collected processes: the first proc_count slots
Collected == {processes[i] : i \in 1..proc_count}
Shown == {rows[i] : i \in 1..Len(rows)}

Min(a, b) == IF a < b THEN a ELSE b

\* C3: top_processes displays exactly min(5, count) rows, in non-increasing
\* order of total_time, all of them collected processes, and every displayed
\* process has total_time >= that of every collected process not displayed.
C3_TopFiveByTotalTime ==
    ScanFinished =>
        /\ Len(rows) = Min(5, proc_count)
        /\ \A i \in 1..Len(rows) :
             /\ \E j \in 1..proc_count : processes[j] = rows[i]
             /\ rows[i].total_time = ULL(rows[i].utime + rows[i].stime)
        /\ \A i \in 1..(Len(rows) - 1) : rows[i].total_time >= rows[i + 1].total_time
        /\ \A i, j \in 1..Len(rows) : i # j => rows[i].pid # rows[j].pid
        /\ \A i \in 1..Len(rows) : \A j \in 1..proc_count :
             (\A k \in 1..Len(rows) : rows[k].pid # processes[j].pid)
                 => rows[i].total_time >= processes[j].total_time

\* six processes were read, five are shown, and the order of the table is
\* not the order of enumeration
C3_Witness ==
    /\ ScanFinished
    /\ proc_count = 6
    /\ Len(rows) = 5
    /\ rows[1].pid > rows[2].pid
    /\ rows[1].total_time > rows[5].total_time
    /\ \E j \in 1..proc_count :
         /\ processes[j].total_time = rows[5].total_time
         /\ \A i \in 1..Len(rows) : rows[i].pid # processes[j].pid

\* C4: the ranking is stable on ties: of two collected processes with equal
\* total_time, the one enumerated first comes first in the sorted array.
C4_StableOnTies ==
    [][pc = "tp_finish" =>
         \A a, b \in 1..proc_count :
            (a < b /\ processes[a].total_time = processes[b].total_time)
                => \E i, j \in 1..proc_count :
                      /\ i < j
                      /\ processes'[i] = processes[a]
                      /\ processes'[j] = processes[b]]_vars

\* the error messages of top_processes and the ERROR entries of the log
ErrorTags == {"err_alloc", "err_proc", "err_realloc"}
ErrorMessage == \E i \in 1..Len(out) : out[i] \in ErrorTags
ErrorLogged == \E i \in 1..Len(log) : log[i].mode = "ERROR"

\* read_process_info has returned for `pid`, and `files` is what it found
LastReadDone == files.valid /\ pc # "tp_read"

\* the stat record could not be opened, or gave fewer than 2 tick fields
StatBad(st) == ~st.open \/ st.fields < 2

\* the number of reads that succeeded: names accepted and read, less the
\* pids whose read failed
SuccessfulReads == Cardinality(passed) - Cardinality(unreadable)

\* a pid whose read failed is neither collected nor displayed nor counted,
\* and the scan goes on to its end and shows what is left
FailedReadsSkipped ==
    /\ LastReadDone /\ StatBad(files.stat) => pid \in unreadable
    /\ \A i \in 1..proc_count : processes[i].pid \notin unreadable
    /\ \A i \in 1..Len(rows) : rows[i].pid \notin unreadable
    /\ proc_dir # "unset" => proc_count = SuccessfulReads
    /\ (ScanFinished /\ alloc_fail = "none")
          => /\ enum_idx = Cardinality(passed) + Cardinality(rejected)
             /\ Len(rows) = Min(TopN, SuccessfulReads)

\* C5 as stated: failed reads are skipped, and an error is reported only
\* when /proc cannot be opened.
C5_AsStated ==
    /\ FailedReadsSkipped
    /\ (ErrorMessage \/ ErrorLogged) => proc_dir = "NULL"

\* C5: a pid whose stat record is unopenable or malformed when it is read is
\* not collected, displayed or counted, the enumeration continues and the
\* table is shown from the rest; an error is reported only when /proc cannot
\* be opened or an allocation (malloc, realloc) fails.
C5_FailedReadsSkipped ==
    /\ FailedReadsSkipped
    /\ (ErrorMessage \/ ErrorLogged) => (proc_dir = "NULL" \/ alloc_fail # "none")

\* a process exited between readdir and the read, and the table shows the
\* one that was left, with no error
C5_Witness ==
    /\ ScanFinished
    /\ host = "racy"
    /\ Cardinality(unreadable) = 1
    /\ LastReadDone /\ ~files.stat.open
    /\ pid \in unreadable
    /\ Len(rows) = 1
    /\ ~ErrorMessage /\ ~ErrorLogged

\* C7: with k < 5 readable processes the table has exactly k rows, each a
\* collected process and none an uninitialised slot; with k = 0 no row and
\* no table at all.
C7_FewerThanFive ==
    (ScanFinished /\ SuccessfulReads < 5) =>
        /\ Len(rows) = SuccessfulReads
        /\ \A i \in 1..Len(rows) :
             /\ "pid" \in DOMAIN rows[i]
             /\ \E j \in 1..proc_count : processes[j] = rows[i]
        /\ \A i, j \in 1..Len(rows) : i # j => rows[i].pid # rows[j].pid
        /\ SuccessfulReads = 0 => (rows = <<>> /\ ~HasOut("proc_table")
                                               /\ HasOut("no_procs"))

\* two entries were accepted, one could not be read: one row
C7_Witness ==
    /\ ScanFinished
    /\ Cardinality(passed) = 2
    /\ Cardinality(unreadable) = 1
    /\ Len(rows) = 1
    /\ HasOut("proc_table")

\* a non-empty string of decimal digits, and the number it denotes
DecimalString(str) ==
    /\ Len(str) > 0
    /\ \A i \in 1..Len(str) :
         str[i] \in {"0", "1", "2", "3", "4", "5", "6", "7", "8", "9"}
RECURSIVE DecimalValue(_)
DecimalValue(str) ==
    IF Len(str) = 0 THEN 0
    ELSE 10 * DecimalValue(SubSeq(str, 1, Len(str) - 1))
         + (CHOOSE d \in 0..9 : Digits[d + 1] = str[Len(str)])

\* C8: a name reaches read_process_info if and only if it is a non-empty
\* string of decimal digits, and then the candidate pid is its value.
C8_NumericNamesOnly ==
    /\ \A str \in passed : DecimalString(str)
    /\ \A str \in rejected : ~DecimalString(str)
    /\ pc = "tp_read" => (DecimalString(entry) /\ pid = DecimalValue(entry))
    /\ (proc_dir = "open" /\ alloc_fail = "none")
          => enum_idx = Cardinality(passed) + Cardinality(rejected)
                        + (IF pc = "tp_read" THEN 1 ELSE 0)

\* "self" was enumerated and rejected; a numeric name was accepted, read and
\* shown under the pid it denotes
C8_Witness ==
    /\ ScanFinished
    /\ rejected = {<<"s", "e", "l", "f">>}
    /\ Cardinality(passed) = 1
    /\ Len(rows) = 1
    /\ \A str \in passed : \E i \in 1..Len(rows) : rows[i].pid = DecimalValue(str)

\* C9: while no allocation fails, proc_count is the number of successful
\* reads, the array has room for them, each successful read is stored in
\* the next slot, and no step of the loop (a growth included) changes a
\* slot already filled.
C9_AllSamplesKept ==
    /\ []((proc_dir = "open" /\ alloc_fail = "none")
            => /\ proc_count = SuccessfulReads
               /\ proc_count <= allocated
               /\ Len(processes) >= proc_count
               /\ \A i \in 1..proc_count : "pid" \in DOMAIN processes[i])
    /\ [][(pc \in {"tp_readdir", "tp_read"} /\ alloc_fail' = "none")
            => /\ \A i \in 1..proc_count : processes'[i] = processes[i]
               /\ proc_count' >= proc_count
               /\ (pc = "tp_read" /\ pc' = "tp_readdir" /\ ~StatBad(files.stat))
                     => /\ proc_count' = proc_count + 1
                        /\ processes'[proc_count'].pid = pid]_vars

\* more than twice the initial capacity was read and kept, after two growths
C9_Witness ==
    /\ pc = "tp_finish"
    /\ alloc_fail = "none"
    /\ capacity = 4 * InitialCapacity
    /\ proc_count = 2 * InitialCapacity + 1
    /\ proc_count = SuccessfulReads
    /\ processes[1].pid = PidBase + 2
    /\ processes[InitialCapacity].pid < processes[InitialCapacity + 1].pid
    /\ processes[proc_count].pid = PidBase + BusyLen

\* C10: read_process_info fails, and the pid is skipped, exactly when stat
\* cannot be opened or gives fewer than 2 tick fields; a process whose comm
\* cannot be opened is collected under the name "unknown".
C10_NameIsSoftFallback ==
    LastReadDone =>
        /\ pid \in unreadable <=> StatBad(files.stat)
        /\ StatBad(files.stat) => \A i \in 1..proc_count : processes[i].pid # pid
        /\ ~StatBad(files.stat) =>
              \E i \in 1..proc_count :
                 /\ processes[i].pid = pid
                 /\ processes[i].utime = files.stat.utime
                 /\ processes[i].stime = files.stat.stime
                 /\ ~files.comm.open => processes[i].name = Unknown
                 /\ files.comm = CommSh => processes[i].name = <<"s", "h">>

\* comm could not be opened, stat gave both fields: shown as "unknown"
C10_Witness ==
    /\ ScanFinished
    /\ LastReadDone
    /\ ~files.comm.open
    /\ files.stat.open /\ files.stat.fields = 2
    /\ \E i \in 1..Len(rows) : rows[i].pid = pid /\ rows[i].name = Unknown

\* top_processes is in its enumeration loop or has just left it
InLoop == proc_dir = "open" /\ pc \in {"tp_readdir", "tp_read", "tp_finish"}

\* C12: in the enumeration loop 0 <= proc_count <= capacity and capacity is
\* 100 * 2^k; the slot given to read_process_info, and every slot written,
\* lies inside the allocated block; after a failed growth the loop has
\* stopped with nothing written past the old block, and the processes
\* collected until then are sorted and displayed.
C12_CapacityInvariant ==
    /\ InLoop =>
          /\ 0 <= proc_count /\ proc_count <= capacity
          /\ \E k \in 0..(GrowthSteps + 1) : capacity = InitialCapacity * (2 ^ k)
          /\ Len(processes) <= allocated
          /\ pc = "tp_read" => (proc_count < capacity /\ proc_count < allocated)
          /\ alloc_fail = "none" => allocated = capacity
          /\ alloc_fail = "realloc" =>
                /\ pc = "tp_finish"
                /\ capacity = 2 * allocated
                /\ proc_count = allocated
                /\ Len(processes) = allocated
    /\ (ScanFinished /\ alloc_fail = "realloc") =>
          /\ HasOut("err_realloc") /\ HasOut("proc_table")
          /\ proc_count = SuccessfulReads
          /\ Len(processes) = proc_count
          /\ \A i \in 1..(proc_count - 1) :
                processes[i].total_time >= processes[i + 1].total_time
          /\ Len(rows) = Min(TopN, proc_count)
          /\ \A i \in 1..Len(rows) : rows[i] = processes[i]

\* the second growth failed: the 200 processes read until then are ranked
C12_Witness ==
    /\ ScanFinished
    /\ alloc_fail = "realloc"
    /\ capacity = 4 * InitialCapacity
    /\ proc_count = 2 * InitialCapacity
    /\ Len(rows) = TopN
    /\ rows[1].total_time > rows[TopN].total_time
    /\ rows[1].pid = PidBase + 2

----------------------------------------------------------------------------
(* Claims about a whole run (checked under Spec) *)

\* a capture of cpu_usage failed, or top_processes could not open /proc
HardFailure == (\E i \in 1..Len(cpu_rc) : cpu_rc[i] # 0) \/ proc_dir = "NULL"

\* C6: after a hard failure no figures and no rows are output, and the
\* failure shows in an error message, an ERROR log entry or the result of
\* parse_arguments.
C6_HardFailuresReported ==
    (pc = "exit" /\ HardFailure) =>
        /\ ~HasOut("cpu_figures")
        /\ rows = <<>>
        /\ \/ \E i \in 1..Len(out) : out[i] \in ErrorTags \cup {"err_cpu"}
           \/ ErrorLogged
           \/ result # <<0>>

----------------------------------------------------------------------------
(* Claims about SIGINT and the log (checked under SpecSig) *)

\* the number of "Session ended" entries in the log
SessionEndedCount ==
    Cardinality({i \in 1..Len(log) : log[i].details = SessionEnded})

\* C13: wherever SIGINT arrives, the log file is closed at most once, it is
\* not used after it was closed, and a run that had a log ends with exactly
\* one "Session ended" entry, the last entry of the log.
C13_LogClosedOnce ==
    /\ log_closes <= 1
    /\ ~log_misuse
    /\ SessionEndedCount <= 1
    /\ (pc = "exit" /\ Len(log) > 0)
          => (SessionEndedCount = 1 /\ log[Len(log)].details = SessionEnded)

----------------------------------------------------------------------------
(* Claims about the menu loop (checked under SpecMenu) *)

\* main is in one of its two `while (getchar() != '\n');` loops
Discarding == pc \in {"discard_invalid", "discard_input"}

\* C14: the program ends only after choice 5 was entered, and whenever it
\* discards the rest of an input line it eventually shows the menu again or
\* exits, whatever the input stream, one that ends early included.
C14_MenuLoopProgress ==
    /\ [](pc = "exit" => (choice = <<5>> /\ HasOut("goodbye")))
    /\ (Discarding ~> (pc = "menu" \/ pc = "exit"))

============================================================================
